---------------------------- MODULE Spec2Model ----------------------------
(***************************************************************************)
(* A model of arcstats_viewer/main.py: the ZFS ARC statistics viewer.      *)
(*                                                                         *)
(* Text encoding.  A Python str is modelled as a sequence of tokens.  The  *)
(* characters the program inspects are tokens of their own: ":", "+", "-", *)
(* "_", every character str.splitlines() ends a line at (LineBreaks),      *)
(* every character str.strip() removes (Whitespace) and every character    *)
(* int() reads as a decimal digit (DigitTokens).  Such a character is      *)
(* written as itself when it is printable ASCII, as "\n", "\t", "\r", "\f" *)
(* for those four, and otherwise as the text of its Python escape: the     *)
(* token "\\x0b" is U+000B, "\\u0663" is U+0663, "\\U0001d7ce" is U+1D7CE. *)
(* Any other maximal run of characters (a key such as                      *)
(* kstat.zfs.misc.arcstats.hits, a word) is one word token.  The str is    *)
(* the concatenation of its tokens.                                        *)
(*                                                                         *)
(* Numbers.  Python ints are unbounded.  An int n is carried by its two     *)
(* digits in base 10^HugeDigits, as the record [hi, lo] with               *)
(* n = hi * 10^HugeDigits + lo; a parsed int has hi and lo of one sign.    *)
(* The ints used here have |hi| and |lo| below 10^7.  With hi = 0 the      *)
(* float arithmetic of human_readable and of the hit ratio is exact or     *)
(* correctly rounded, so a ratio is modelled as the exact fraction         *)
(* num/den.  With hi # 0 the int is beyond the range of a float:           *)
(* converting it raises OverflowError, a quotient of two such ints is the  *)
(* float of hi / hi, and the quotient of a small int by such an int is     *)
(* below half the smallest subnormal float (10^7 * 2^1075 < 10^331), so    *)
(* it underflows to 0.0 or -0.0.                                           *)
(*                                                                         *)
(* Exceptions.  An expression that raises has the value                    *)
(* [exception |-> name]; a callback that raises ends there, with the       *)
(* assignments made before kept, and GLib removes it like one that         *)
(* returned False.                                                         *)
(***************************************************************************)
EXTENDS Integers, Sequences, FiniteSets, TLC

\* ------------------------------------------------------------ constants

ARC_HITS == <<"kstat.zfs.misc.arcstats.hits">>
ARC_MISSES == <<"kstat.zfs.misc.arcstats.misses">>
ARC_SIZE == <<"kstat.zfs.misc.arcstats.size">>
LOW_RATIO_THRESHOLD == 90
HISTORY_CAPACITY == 60

\* self.last_update_time = None; clock readings start at 1.
NoneTime == 0

NL == "\n"
CR == "\r"
SP == " "
COLON == ":"
UNDERSCORE == "_"

\* The characters str.splitlines() ends a line at.
LineBreaks ==
    { "\n", "\\x0b", "\f", "\r", "\\x1c", "\\x1d", "\\x1e", "\\x85", "\\u2028", "\\u2029" }

\* The characters str.strip() removes: those str.isspace() holds of.
Whitespace ==
    { "\t", "\n", "\\x0b", "\f", "\r", "\\x1c", "\\x1d", "\\x1e", "\\x1f", " ", "\\x85",
      "\\xa0", "\\u1680", "\\u2000", "\\u2001", "\\u2002", "\\u2003", "\\u2004",
      "\\u2005", "\\u2006", "\\u2007", "\\u2008", "\\u2009", "\\u200a", "\\u2028",
      "\\u2029", "\\u202f", "\\u205f", "\\u3000" }

\* ------------------------------------------------------ general helpers

Abs(n) == IF n < 0 THEN -n ELSE n

Min(a, b) == IF a < b THEN a ELSE b

\* The last n elements of s (all of s when it is shorter).
LastN(s, n) == IF Len(s) <= n THEN s ELSE SubSeq(s, Len(s) - n + 1, Len(s))

\* F(v), with v evaluated once and bound as a value.  (TLC evaluates a LET
\* definition or an operator argument anew at each use when it evaluates an
\* action inside ENABLED; a bound variable is evaluated once.)
With(v, F(_)) == CHOOSE r \in {F(x) : x \in {v}} : TRUE

\* The number of decimal digits of the low digit of an int: 10^HugeDigits
\* divided by any total below 2^25 is beyond the range of a float.
HugeDigits == 331

\* The int hi * 10^HugeDigits + lo.
PyInt(hi, lo) == [hi |-> hi, lo |-> lo]

\* The int n, below 10^HugeDigits in magnitude.
Small(n) == PyInt(0, n)

\* a + b
Add(a, b) == PyInt(a.hi + b.hi, a.lo + b.lo)

\* n > 0 and n < 0
IsPos(n) == n.hi > 0 \/ (n.hi = 0 /\ n.lo > 0)

IsNeg(n) == n.hi < 0 \/ (n.hi = 0 /\ n.lo < 0)

\* The value of an expression that raised OverflowError.
OverflowError == [exception |-> "OverflowError"]

IsRaise(x) == "exception" \in DOMAIN x

EmptyDict == [k \in {} |-> Small(0)]

\* dict.get(key, 0)
DictGet(d, key) == IF key \in DOMAIN d THEN d[key] ELSE Small(0)

\* d[key] = value
DictSet(d, key, value) == [k \in (DOMAIN d) \cup {key} |-> IF k = key THEN value ELSE d[k]]

\* ------------------------------------------------------ human_readable

Prefixes == <<"", "K", "M", "G", "T">>

\* f"{x:.1f}" of the exact value n / d (d a power of 1024): the number of
\* tenths, rounded half to even as Python's float formatting does.
Tenths(n, d) ==
    With(10 * Abs(n), LAMBDA a :
        With(a \div d, LAMBDA q :
            With(a % d, LAMBDA r :
                IF 2 * r > d \/ (2 * r = d /\ q % 2 = 1) THEN q + 1 ELSE q)))

Fixed1(n, d, x, unit) ==
    With(Tenths(n, d), LAMBDA t :
        [fmt |-> "human", neg |-> n < 0, whole |-> t \div 10, frac |-> t % 10,
         unit |-> <<x, unit>>])

RECURSIVE HumanLoop(_, _, _, _)
\* The loop of human_readable at prefix number i, n having been divided
\* i - 1 times by 1024.0: the float n is the exact value n / d.
HumanLoop(n, i, d, unit) ==
    IF i > Len(Prefixes) THEN Fixed1(n, d, "P", unit)
    ELSE IF Abs(n) < 1024 * d THEN Fixed1(n, d, Prefixes[i], unit)
    ELSE HumanLoop(n, i + 1, d * 1024, unit)

\* human_readable(n): abs(n) < 1024.0 compares exactly; n /= 1024.0 first
\* converts the int to a float, which raises OverflowError beyond its range.
human_readable(n) == IF n.hi # 0 THEN OverflowError ELSE HumanLoop(n.lo, 1, 1, "B")

RECURSIVE DigitsVal10(_)
\* The number with the decimal digits ds (at most three here).
DigitsVal10(ds) == IF ds = <<>> THEN 0 ELSE 10 * DigitsVal10(SubSeq(ds, 1, Len(ds) - 1)) + ds[Len(ds)]

RECURSIVE Groups(_)
\* The groups of three digits of m >= 0, most significant first.
Groups(m) == IF m < 1000 THEN <<m>> ELSE Append(Groups(m \div 1000), m % 1000)

RECURSIVE DigitsOf(_)
\* The decimal digits of m >= 0, most significant first.
DigitsOf(m) == IF m < 10 THEN <<m>> ELSE Append(DigitsOf(m \div 10), m % 10)

\* The decimal digits of the low digit lo >= 0 of an int with hi # 0.
LowDigitsOf(lo) ==
    With(DigitsOf(lo), LAMBDA ds : [i \in 1..(HugeDigits - Len(ds)) |-> 0] \o ds)

\* The groups of three of the decimal digits digits, counted from the right.
GroupDigits(digits) ==
    With(digits, LAMBDA ds :
        With((Len(ds) + 2) \div 3, LAMBDA g :
            [i \in 1..g |->
                With(Len(ds) - 3 * (g - i), LAMBDA last :
                    DigitsVal10(SubSeq(ds, IF last > 3 THEN last - 2 ELSE 1, last)))]))

\* f"{n:,}": the sign and the comma-separated groups.
Grouped(n) ==
    [fmt |-> "grouped", neg |-> IsNeg(n),
     groups |-> IF n.hi = 0 THEN Groups(Abs(n.lo))
                ELSE GroupDigits(DigitsOf(Abs(n.hi)) \o LowDigitsOf(Abs(n.lo)))]

\* ---------------------------------------------------------------- parser

\* The index of the first line break of s, 0 when there is none.
FirstNL(s) ==
    With({i \in 1..Len(s) : s[i] \in LineBreaks}, LAMBDA breaks :
        IF breaks = {} THEN 0 ELSE CHOOSE i \in breaks : \A j \in breaks : i <= j)

\* The length of the line break at index k of s: "\r\n" is one break.
BreakLen(s, k) == IF s[k] = CR /\ k < Len(s) /\ s[k + 1] = NL THEN 2 ELSE 1

RECURSIVE SplitLines(_)
\* str.splitlines(): the lines without their line breaks; a final line break
\* starts no further line.
SplitLines(text) ==
    With(text, LAMBDA s :
        IF s = <<>> THEN <<>>
        ELSE With(FirstNL(s), LAMBDA k :
                 IF k = 0 THEN <<s>>
                 ELSE <<SubSeq(s, 1, k - 1)>> \o SplitLines(SubSeq(s, k + BreakLen(s, k), Len(s)))))

\* The index of the first ": " in line, 0 when there is none.
SepIndex(line) ==
    With({i \in 1..(Len(line) - 1) : line[i] = COLON /\ line[i + 1] = SP}, LAMBDA hits :
        IF hits = {} THEN 0 ELSE CHOOSE i \in hits : \A j \in hits : i <= j)

\* ": " in line
IsSignificant(line) == SepIndex(line) # 0

RECURSIVE LStrip(_)
LStrip(s) == IF s # <<>> /\ Head(s) \in Whitespace THEN LStrip(Tail(s)) ELSE s

RECURSIVE RStrip(_)
RStrip(s) == IF s # <<>> /\ s[Len(s)] \in Whitespace THEN RStrip(SubSeq(s, 1, Len(s) - 1)) ELSE s

\* str.strip()
Strip(s) == RStrip(LStrip(s))

\* key, val_str = line.split(": ", 1), each stripped
SplitKeyVal(line) ==
    With(SepIndex(line), LAMBDA i :
        [key |-> Strip(SubSeq(line, 1, i - 1)),
         val_str |-> Strip(SubSeq(line, i + 2, Len(line)))])

\* DigitChars[d + 1]: the characters int() reads as the decimal digit d (the
\* Unicode decimal digits, ASCII first).
DigitChars ==
    << { "0", "\\u0660", "\\u06f0", "\\u07c0", "\\u0966", "\\u09e6", "\\u0a66", "\\u0ae6",
         "\\u0b66", "\\u0be6", "\\u0c66", "\\u0ce6", "\\u0d66", "\\u0de6", "\\u0e50",
         "\\u0ed0", "\\u0f20", "\\u1040", "\\u1090", "\\u17e0", "\\u1810", "\\u1946",
         "\\u19d0", "\\u1a80", "\\u1a90", "\\u1b50", "\\u1bb0", "\\u1c40", "\\u1c50",
         "\\ua620", "\\ua8d0", "\\ua900", "\\ua9d0", "\\ua9f0", "\\uaa50", "\\uabf0",
         "\\uff10", "\\U000104a0", "\\U00010d30", "\\U00011066", "\\U000110f0",
         "\\U00011136", "\\U000111d0", "\\U000112f0", "\\U00011450", "\\U000114d0",
         "\\U00011650", "\\U000116c0", "\\U00011730", "\\U000118e0", "\\U00011950",
         "\\U00011c50", "\\U00011d50", "\\U00011da0", "\\U00016a60", "\\U00016ac0",
         "\\U00016b50", "\\U0001d7ce", "\\U0001d7d8", "\\U0001d7e2", "\\U0001d7ec",
         "\\U0001d7f6", "\\U0001e140", "\\U0001e2f0", "\\U0001e950", "\\U0001fbf0" },
       { "1", "\\u0661", "\\u06f1", "\\u07c1", "\\u0967", "\\u09e7", "\\u0a67", "\\u0ae7",
         "\\u0b67", "\\u0be7", "\\u0c67", "\\u0ce7", "\\u0d67", "\\u0de7", "\\u0e51",
         "\\u0ed1", "\\u0f21", "\\u1041", "\\u1091", "\\u17e1", "\\u1811", "\\u1947",
         "\\u19d1", "\\u1a81", "\\u1a91", "\\u1b51", "\\u1bb1", "\\u1c41", "\\u1c51",
         "\\ua621", "\\ua8d1", "\\ua901", "\\ua9d1", "\\ua9f1", "\\uaa51", "\\uabf1",
         "\\uff11", "\\U000104a1", "\\U00010d31", "\\U00011067", "\\U000110f1",
         "\\U00011137", "\\U000111d1", "\\U000112f1", "\\U00011451", "\\U000114d1",
         "\\U00011651", "\\U000116c1", "\\U00011731", "\\U000118e1", "\\U00011951",
         "\\U00011c51", "\\U00011d51", "\\U00011da1", "\\U00016a61", "\\U00016ac1",
         "\\U00016b51", "\\U0001d7cf", "\\U0001d7d9", "\\U0001d7e3", "\\U0001d7ed",
         "\\U0001d7f7", "\\U0001e141", "\\U0001e2f1", "\\U0001e951", "\\U0001fbf1" },
       { "2", "\\u0662", "\\u06f2", "\\u07c2", "\\u0968", "\\u09e8", "\\u0a68", "\\u0ae8",
         "\\u0b68", "\\u0be8", "\\u0c68", "\\u0ce8", "\\u0d68", "\\u0de8", "\\u0e52",
         "\\u0ed2", "\\u0f22", "\\u1042", "\\u1092", "\\u17e2", "\\u1812", "\\u1948",
         "\\u19d2", "\\u1a82", "\\u1a92", "\\u1b52", "\\u1bb2", "\\u1c42", "\\u1c52",
         "\\ua622", "\\ua8d2", "\\ua902", "\\ua9d2", "\\ua9f2", "\\uaa52", "\\uabf2",
         "\\uff12", "\\U000104a2", "\\U00010d32", "\\U00011068", "\\U000110f2",
         "\\U00011138", "\\U000111d2", "\\U000112f2", "\\U00011452", "\\U000114d2",
         "\\U00011652", "\\U000116c2", "\\U00011732", "\\U000118e2", "\\U00011952",
         "\\U00011c52", "\\U00011d52", "\\U00011da2", "\\U00016a62", "\\U00016ac2",
         "\\U00016b52", "\\U0001d7d0", "\\U0001d7da", "\\U0001d7e4", "\\U0001d7ee",
         "\\U0001d7f8", "\\U0001e142", "\\U0001e2f2", "\\U0001e952", "\\U0001fbf2" },
       { "3", "\\u0663", "\\u06f3", "\\u07c3", "\\u0969", "\\u09e9", "\\u0a69", "\\u0ae9",
         "\\u0b69", "\\u0be9", "\\u0c69", "\\u0ce9", "\\u0d69", "\\u0de9", "\\u0e53",
         "\\u0ed3", "\\u0f23", "\\u1043", "\\u1093", "\\u17e3", "\\u1813", "\\u1949",
         "\\u19d3", "\\u1a83", "\\u1a93", "\\u1b53", "\\u1bb3", "\\u1c43", "\\u1c53",
         "\\ua623", "\\ua8d3", "\\ua903", "\\ua9d3", "\\ua9f3", "\\uaa53", "\\uabf3",
         "\\uff13", "\\U000104a3", "\\U00010d33", "\\U00011069", "\\U000110f3",
         "\\U00011139", "\\U000111d3", "\\U000112f3", "\\U00011453", "\\U000114d3",
         "\\U00011653", "\\U000116c3", "\\U00011733", "\\U000118e3", "\\U00011953",
         "\\U00011c53", "\\U00011d53", "\\U00011da3", "\\U00016a63", "\\U00016ac3",
         "\\U00016b53", "\\U0001d7d1", "\\U0001d7db", "\\U0001d7e5", "\\U0001d7ef",
         "\\U0001d7f9", "\\U0001e143", "\\U0001e2f3", "\\U0001e953", "\\U0001fbf3" },
       { "4", "\\u0664", "\\u06f4", "\\u07c4", "\\u096a", "\\u09ea", "\\u0a6a", "\\u0aea",
         "\\u0b6a", "\\u0bea", "\\u0c6a", "\\u0cea", "\\u0d6a", "\\u0dea", "\\u0e54",
         "\\u0ed4", "\\u0f24", "\\u1044", "\\u1094", "\\u17e4", "\\u1814", "\\u194a",
         "\\u19d4", "\\u1a84", "\\u1a94", "\\u1b54", "\\u1bb4", "\\u1c44", "\\u1c54",
         "\\ua624", "\\ua8d4", "\\ua904", "\\ua9d4", "\\ua9f4", "\\uaa54", "\\uabf4",
         "\\uff14", "\\U000104a4", "\\U00010d34", "\\U0001106a", "\\U000110f4",
         "\\U0001113a", "\\U000111d4", "\\U000112f4", "\\U00011454", "\\U000114d4",
         "\\U00011654", "\\U000116c4", "\\U00011734", "\\U000118e4", "\\U00011954",
         "\\U00011c54", "\\U00011d54", "\\U00011da4", "\\U00016a64", "\\U00016ac4",
         "\\U00016b54", "\\U0001d7d2", "\\U0001d7dc", "\\U0001d7e6", "\\U0001d7f0",
         "\\U0001d7fa", "\\U0001e144", "\\U0001e2f4", "\\U0001e954", "\\U0001fbf4" },
       { "5", "\\u0665", "\\u06f5", "\\u07c5", "\\u096b", "\\u09eb", "\\u0a6b", "\\u0aeb",
         "\\u0b6b", "\\u0beb", "\\u0c6b", "\\u0ceb", "\\u0d6b", "\\u0deb", "\\u0e55",
         "\\u0ed5", "\\u0f25", "\\u1045", "\\u1095", "\\u17e5", "\\u1815", "\\u194b",
         "\\u19d5", "\\u1a85", "\\u1a95", "\\u1b55", "\\u1bb5", "\\u1c45", "\\u1c55",
         "\\ua625", "\\ua8d5", "\\ua905", "\\ua9d5", "\\ua9f5", "\\uaa55", "\\uabf5",
         "\\uff15", "\\U000104a5", "\\U00010d35", "\\U0001106b", "\\U000110f5",
         "\\U0001113b", "\\U000111d5", "\\U000112f5", "\\U00011455", "\\U000114d5",
         "\\U00011655", "\\U000116c5", "\\U00011735", "\\U000118e5", "\\U00011955",
         "\\U00011c55", "\\U00011d55", "\\U00011da5", "\\U00016a65", "\\U00016ac5",
         "\\U00016b55", "\\U0001d7d3", "\\U0001d7dd", "\\U0001d7e7", "\\U0001d7f1",
         "\\U0001d7fb", "\\U0001e145", "\\U0001e2f5", "\\U0001e955", "\\U0001fbf5" },
       { "6", "\\u0666", "\\u06f6", "\\u07c6", "\\u096c", "\\u09ec", "\\u0a6c", "\\u0aec",
         "\\u0b6c", "\\u0bec", "\\u0c6c", "\\u0cec", "\\u0d6c", "\\u0dec", "\\u0e56",
         "\\u0ed6", "\\u0f26", "\\u1046", "\\u1096", "\\u17e6", "\\u1816", "\\u194c",
         "\\u19d6", "\\u1a86", "\\u1a96", "\\u1b56", "\\u1bb6", "\\u1c46", "\\u1c56",
         "\\ua626", "\\ua8d6", "\\ua906", "\\ua9d6", "\\ua9f6", "\\uaa56", "\\uabf6",
         "\\uff16", "\\U000104a6", "\\U00010d36", "\\U0001106c", "\\U000110f6",
         "\\U0001113c", "\\U000111d6", "\\U000112f6", "\\U00011456", "\\U000114d6",
         "\\U00011656", "\\U000116c6", "\\U00011736", "\\U000118e6", "\\U00011956",
         "\\U00011c56", "\\U00011d56", "\\U00011da6", "\\U00016a66", "\\U00016ac6",
         "\\U00016b56", "\\U0001d7d4", "\\U0001d7de", "\\U0001d7e8", "\\U0001d7f2",
         "\\U0001d7fc", "\\U0001e146", "\\U0001e2f6", "\\U0001e956", "\\U0001fbf6" },
       { "7", "\\u0667", "\\u06f7", "\\u07c7", "\\u096d", "\\u09ed", "\\u0a6d", "\\u0aed",
         "\\u0b6d", "\\u0bed", "\\u0c6d", "\\u0ced", "\\u0d6d", "\\u0ded", "\\u0e57",
         "\\u0ed7", "\\u0f27", "\\u1047", "\\u1097", "\\u17e7", "\\u1817", "\\u194d",
         "\\u19d7", "\\u1a87", "\\u1a97", "\\u1b57", "\\u1bb7", "\\u1c47", "\\u1c57",
         "\\ua627", "\\ua8d7", "\\ua907", "\\ua9d7", "\\ua9f7", "\\uaa57", "\\uabf7",
         "\\uff17", "\\U000104a7", "\\U00010d37", "\\U0001106d", "\\U000110f7",
         "\\U0001113d", "\\U000111d7", "\\U000112f7", "\\U00011457", "\\U000114d7",
         "\\U00011657", "\\U000116c7", "\\U00011737", "\\U000118e7", "\\U00011957",
         "\\U00011c57", "\\U00011d57", "\\U00011da7", "\\U00016a67", "\\U00016ac7",
         "\\U00016b57", "\\U0001d7d5", "\\U0001d7df", "\\U0001d7e9", "\\U0001d7f3",
         "\\U0001d7fd", "\\U0001e147", "\\U0001e2f7", "\\U0001e957", "\\U0001fbf7" },
       { "8", "\\u0668", "\\u06f8", "\\u07c8", "\\u096e", "\\u09ee", "\\u0a6e", "\\u0aee",
         "\\u0b6e", "\\u0bee", "\\u0c6e", "\\u0cee", "\\u0d6e", "\\u0dee", "\\u0e58",
         "\\u0ed8", "\\u0f28", "\\u1048", "\\u1098", "\\u17e8", "\\u1818", "\\u194e",
         "\\u19d8", "\\u1a88", "\\u1a98", "\\u1b58", "\\u1bb8", "\\u1c48", "\\u1c58",
         "\\ua628", "\\ua8d8", "\\ua908", "\\ua9d8", "\\ua9f8", "\\uaa58", "\\uabf8",
         "\\uff18", "\\U000104a8", "\\U00010d38", "\\U0001106e", "\\U000110f8",
         "\\U0001113e", "\\U000111d8", "\\U000112f8", "\\U00011458", "\\U000114d8",
         "\\U00011658", "\\U000116c8", "\\U00011738", "\\U000118e8", "\\U00011958",
         "\\U00011c58", "\\U00011d58", "\\U00011da8", "\\U00016a68", "\\U00016ac8",
         "\\U00016b58", "\\U0001d7d6", "\\U0001d7e0", "\\U0001d7ea", "\\U0001d7f4",
         "\\U0001d7fe", "\\U0001e148", "\\U0001e2f8", "\\U0001e958", "\\U0001fbf8" },
       { "9", "\\u0669", "\\u06f9", "\\u07c9", "\\u096f", "\\u09ef", "\\u0a6f", "\\u0aef",
         "\\u0b6f", "\\u0bef", "\\u0c6f", "\\u0cef", "\\u0d6f", "\\u0def", "\\u0e59",
         "\\u0ed9", "\\u0f29", "\\u1049", "\\u1099", "\\u17e9", "\\u1819", "\\u194f",
         "\\u19d9", "\\u1a89", "\\u1a99", "\\u1b59", "\\u1bb9", "\\u1c49", "\\u1c59",
         "\\ua629", "\\ua8d9", "\\ua909", "\\ua9d9", "\\ua9f9", "\\uaa59", "\\uabf9",
         "\\uff19", "\\U000104a9", "\\U00010d39", "\\U0001106f", "\\U000110f9",
         "\\U0001113f", "\\U000111d9", "\\U000112f9", "\\U00011459", "\\U000114d9",
         "\\U00011659", "\\U000116c9", "\\U00011739", "\\U000118e9", "\\U00011959",
         "\\U00011c59", "\\U00011d59", "\\U00011da9", "\\U00016a69", "\\U00016ac9",
         "\\U00016b59", "\\U0001d7d7", "\\U0001d7e1", "\\U0001d7eb", "\\U0001d7f5",
         "\\U0001d7ff", "\\U0001e149", "\\U0001e2f9", "\\U0001e959", "\\U0001fbf9" } >>

DigitTokens == UNION {DigitChars[d + 1] : d \in 0..9}

DigitVal(c) == CHOOSE d \in 0..9 : c \in DigitChars[d + 1]

HasSign(s) == s # <<>> /\ Head(s) \in {"+", "-"}

Unsigned(s) == IF HasSign(s) THEN Tail(s) ELSE s

\* sys.get_int_max_str_digits(): int() raises ValueError on more digits
\* (leading zeros counted, sign and underscores not).  Interpreters older
\* than the limit accept any length.
INT_MAX_STR_DIGITS == 4300

\* int(val_str) does not raise ValueError: an optional sign, then at most
\* INT_MAX_STR_DIGITS decimal digits, single underscores allowed between two
\* digits.
IsInt(s) ==
    With(Unsigned(s), LAMBDA u :
        /\ u # <<>>
        /\ u[1] \in DigitTokens /\ u[Len(u)] \in DigitTokens
        /\ \A i \in 1..Len(u) : u[i] \in DigitTokens \/ (u[i] = UNDERSCORE /\ u[i - 1] # UNDERSCORE)
        /\ Cardinality({i \in 1..Len(u) : u[i] \in DigitTokens}) <= INT_MAX_STR_DIGITS)

RECURSIVE DigitsVal(_, _)
\* The value of the digits of s after acc, the underscores skipped.
DigitsVal(s, acc) ==
    IF s = <<>> THEN acc
    ELSE With(Tail(s), LAMBDA rest :
             IF Head(s) = UNDERSCORE THEN DigitsVal(rest, acc)
             ELSE With(10 * acc + DigitVal(Head(s)), LAMBDA a : DigitsVal(rest, a)))

IsDigit(c) == c \in DigitTokens

\* The digits ds without their leading zeros.
SkipZeros(ds) ==
    With({i \in 1..Len(ds) : DigitVal(ds[i]) # 0}, LAMBDA nonzero :
        IF nonzero = {} THEN <<>>
        ELSE SubSeq(ds, CHOOSE i \in nonzero : \A j \in nonzero : i <= j, Len(ds)))

\* int(val_str): the digits before the last HugeDigits give hi, those give lo.
IntOf(s) ==
    With(SelectSeq(Unsigned(s), IsDigit), LAMBDA ds :
        With(IF Len(ds) > HugeDigits THEN Len(ds) - HugeDigits ELSE 0, LAMBDA k :
            With(DigitsVal(SkipZeros(SubSeq(ds, 1, k)), 0), LAMBDA hi :
                With(DigitsVal(SkipZeros(SubSeq(ds, k + 1, Len(ds))), 0), LAMBDA lo :
                    IF HasSign(s) /\ Head(s) = "-" THEN PyInt(-hi, -lo) ELSE PyInt(hi, lo)))))

\* The value shown in the table for one numeric stat.
DisplayNum(n, human) == IF human THEN human_readable(n) ELSE Grouped(n)

DisplayText(val_str) == [fmt |-> "text", text |-> val_str]

\* The body of the for loop of update_store for one line, acc holding the
\* ListStore rows and the numeric_stats dict built so far.
\* raised: human_readable raised OverflowError, after numeric_stats[key] was
\* set and before the row was appended.
StoreLine(line, human, acc) ==
    IF ~IsSignificant(line) THEN acc
    ELSE With(SplitKeyVal(line), LAMBDA kv :
             IF IsInt(kv.val_str)
             THEN With(IntOf(kv.val_str), LAMBDA num_val :
                      With(DisplayNum(num_val, human), LAMBDA display_val :
                          IF IsRaise(display_val)
                          THEN [store |-> acc.store,
                                numeric_stats |-> DictSet(acc.numeric_stats, kv.key, num_val),
                                raised |-> TRUE]
                          ELSE [store |-> Append(acc.store, <<kv.key, display_val>>),
                                numeric_stats |-> DictSet(acc.numeric_stats, kv.key, num_val),
                                raised |-> FALSE]))
             ELSE [store |-> Append(acc.store, <<kv.key, DisplayText(kv.val_str)>>),
                   numeric_stats |-> acc.numeric_stats,
                   raised |-> FALSE])

RECURSIVE StoreLoop(_, _, _)
\* The for loop of update_store over the lines left; it ends where a line
\* raised.
StoreLoop(lines, human, acc) ==
    IF lines = <<>> \/ acc.raised THEN acc
    ELSE With(StoreLine(Head(lines), human, acc), LAMBDA a :
             With(Tail(lines), LAMBDA rest : StoreLoop(rest, human, a)))

\* for line in output.splitlines(): ..., begun with the rows and the dict
\* in start.
RunLoop(output, human, start) ==
    With(start, LAMBDA acc :
        With(SplitLines(output), LAMBDA lines : StoreLoop(lines, human, acc)))

\* self.store.clear(); self.numeric_stats.clear(): what the loop starts from.
Cleared(old_store, old_numeric) ==
    [store |-> <<>>, numeric_stats |-> EmptyDict, raised |-> FALSE]


\* --------------------------------------------------------- update_summary

\* The float num / den; neg0: it is -0.0.
Ratio(num, den, neg0) == [num |-> num, den |-> den, neg0 |-> neg0]

\* ratio = (hits / total * 100) if total > 0 else 0.0, as the fraction num/den.
\* hits / total is the correctly rounded quotient of the two ints: beyond the
\* range of a float it raises OverflowError, below it it is 0.0 or -0.0.
RatioOf(hits, total) ==
    IF ~IsPos(total) THEN Ratio(0, 1, FALSE)
    ELSE IF total.hi = 0
         THEN IF hits.hi # 0 THEN OverflowError ELSE Ratio(100 * hits.lo, total.lo, FALSE)
         ELSE IF hits.hi # 0 THEN Ratio(100 * hits.hi, total.hi, FALSE)
              ELSE Ratio(0, 1, hits.lo < 0)

\* ratio < k and ratio > k, for an integer k (den > 0).
RatioLess(r, k) == r.num < k * r.den

RatioGreater(r, k) == r.num > k * r.den

\* The figures update_summary derives from numeric_stats.
Metrics(ns) ==
    With(DictGet(ns, ARC_HITS), LAMBDA hits :
        With(DictGet(ns, ARC_MISSES), LAMBDA misses :
            [size |-> DictGet(ns, ARC_SIZE), hits |-> hits, misses |-> misses,
             total |-> Add(hits, misses), ratio |-> RatioOf(hits, Add(hits, misses))]))

\* Mutant of IsLow: the threshold itself counted as low.
IsLowInclusive(ratio) == ~RatioGreater(ratio, LOW_RATIO_THRESHOLD) /\ RatioGreater(ratio, 0)

\* ratio < LOW_RATIO_THRESHOLD and ratio > 0: the orange, bold markup.
IsLow(ratio) == RatioLess(ratio, LOW_RATIO_THRESHOLD) /\ RatioGreater(ratio, 0)

\* size_disp
SizeDisp(size, human) ==
    IF human
    THEN With(human_readable(size), LAMBDA value :
             IF IsRaise(value) THEN value ELSE [value |-> value, suffix |-> ""])
    ELSE [value |-> Grouped(size), suffix |-> " B"]

\* The markup set on summary_label (the two-decimal rendering of the ratio
\* is kept as the ratio itself).
\* It is the exception when the ratio or size_disp raises.
SummaryOf(ns, human) ==
    With(Metrics(ns), LAMBDA m :
        IF IsRaise(m.ratio) THEN m.ratio
        ELSE With(SizeDisp(m.size, human), LAMBDA size_disp :
                 IF IsRaise(size_disp) THEN size_disp
                 ELSE [kind |-> "stats", size_disp |-> size_disp,
                       hits |-> Grouped(m.hits), misses |-> Grouped(m.misses),
                       ratio |-> m.ratio, low |-> IsLow(m.ratio)]))

\* The dict appended to self.history.
PointOf(ns) ==
    With(Metrics(ns), LAMBDA m : [hits |-> m.hits, misses |-> m.misses, ratio |-> m.ratio])

\* Mutant of RecordHistory: the oldest record dropped one append too early.
RecordHistoryEarlyPop(h, point) ==
    With(Append(h, point), LAMBDA a :
        IF Len(a) >= HISTORY_CAPACITY THEN Tail(a) ELSE a)

\* self.history.append(point); if len(self.history) > 60: self.history.pop(0)
RecordHistory(h, point) ==
    With(Append(h, point), LAMBDA a :
        IF Len(a) > HISTORY_CAPACITY THEN Tail(a) ELSE a)

\* update_chart: nothing is drawn for an empty history; otherwise the hits
\* and the misses of every record are handed to Axes.plot, which converts
\* them to an array of floats: an int beyond the range of a float raises
\* OverflowError.  The figure itself is not part of the state.
update_chart(h) ==
    IF h = <<>> THEN [plotted |-> 0]
    ELSE IF \E i \in DOMAIN h : h[i].hits.hi # 0 \/ h[i].misses.hi # 0
         THEN OverflowError
         ELSE [plotted |-> Len(h)]

\* The table and the dict update_store builds from output.
Parsed(output, human) == RunLoop(output, human, Cleared(<<>>, EmptyDict))

\* ----------------------------------------------------------------- inputs

\* One line "key: value\n" of sysctl output.
KV(key, val) == key \o <<COLON, SP>> \o val \o <<NL>>

\* hits 89, misses 11, size 2048
OutA == KV(ARC_HITS, <<"8", "9">>) \o KV(ARC_MISSES, <<"1", "1">>) \o KV(ARC_SIZE, <<"2", "0", "4", "8">>)

\* hits 90, misses 10, a text row, no size
OutB == KV(ARC_HITS, <<"9", "0">>) \o KV(ARC_MISSES, <<"1", "0">>) \o KV(<<"kstat.zfs.misc.arcstats.name">>, <<"arc">>)

\* a line without separator, then no traffic
OutC == <<"kstat.zfs.misc.arcstats", NL>> \o KV(ARC_HITS, <<"0">>) \o KV(ARC_MISSES, <<"0">>)

\* The digits of the int with the digits hi, then zeros, then the digits lo
\* at the end of its low HugeDigits digits.
HugeTokens(hi, lo) == hi \o [i \in 1..(HugeDigits - Len(lo)) |-> "0"] \o lo

\* counters beyond the range of a float: hits 10^HugeDigits + 5, misses
\* -10^HugeDigits, a total of 5
OutD == KV(ARC_HITS, HugeTokens(<<"1">>, <<"5">>)) \o KV(ARC_MISSES, <<"-">> \o HugeTokens(<<"1">>, <<>>))

OutputSeq == <<OutA, OutB, OutC>>

\* What sysctl may print in the system specifications.
Outputs == {OutputSeq[i] : i \in DOMAIN OutputSeq} \cup {OutD}

\* The output of the i-th poll of a run whose polls cycle through OutputSeq.
CycleOut(i) == OutputSeq[((i - 1) % Len(OutputSeq)) + 1]

\* Lines the parser specification combines.
LinePool ==
    { KV(ARC_HITS, <<"8", "9">>), KV(ARC_MISSES, <<"1", "1">>),
      KV(ARC_HITS, <<"9", "0">>), KV(ARC_MISSES, <<"1", "0">>),
      KV(ARC_HITS, <<"3">>), KV(ARC_MISSES, <<"-", "1">>),
      KV(ARC_HITS, <<"-", "1">>), KV(ARC_MISSES, <<"+", "2">>),
      KV(ARC_HITS, <<"0">>), KV(ARC_HITS, <<"x">>),
      KV(ARC_SIZE, <<"3", "5", "6", "5", "1", "5", "8">>),
      KV(ARC_SIZE, <<"-", "2", "0", "4", "8">>),
      <<SP, "name", SP, COLON, SP, SP, "arc", SP, "cache", SP, NL>>,
      <<"a", COLON, "b", COLON, SP, "1", COLON, SP, "2", NL>>,
      <<COLON, SP, NL>>,
      <<"no", SP, "separator", COLON, NL>>,
      KV(ARC_HITS, <<"1", UNDERSCORE, "0", "0", "0">>),
      KV(ARC_MISSES, <<"\t", "\\u0665", "\\xa0">>),
      ARC_SIZE \o <<COLON, SP, "7", "\f">>,
      KV(ARC_HITS, HugeTokens(<<"1">>, <<"5">>)),
      KV(ARC_MISSES, <<"-">> \o HugeTokens(<<"1">>, <<>>)),
      KV(ARC_MISSES, HugeTokens(<<"3">>, <<"7">>)),
      KV(ARC_SIZE, HugeTokens(<<"1", "2", "3", "4">>, <<"5", "6">>)),
      <<NL>> }

\* Every text of at most MaxLines lines of LinePool, and one without a final newline.
MaxLines == 2

RECURSIVE TextsOf(_)
TextsOf(n) == IF n = 0 THEN {<<>>} ELSE TextsOf(n - 1) \cup {t \o l : t \in TextsOf(n - 1), l \in LinePool}

ParseInputs == TextsOf(MaxLines) \cup {ARC_HITS \o <<COLON, SP, "5">>}

\* ------------------------------------------------------------------ state

VARIABLES
    numeric_stats,      \* self.numeric_stats
    history,            \* self.history
    last_output,        \* self.last_output
    last_update_time,   \* self.last_update_time
    store,              \* self.store: the rows [key, display value]
    refresh_label,      \* the text of self.refresh_label
    summary_label,      \* the markup of self.summary_label
    unit_toggle,        \* self.unit_toggle.get_active()
    timer_armed,        \* the GLib timeout source of refresh_stats is installed
    running,            \* worker threads inside subprocess.check_output
    fetched,            \* worker threads holding (output, update_time), before idle_add
    idle,               \* GLib's queue of idle callbacks, in idle_add order
    now,                \* the next reading of datetime.now()
    nticks,             \* timer ticks fired so far (bounded)
    ntoggles,           \* clicks on the check button so far (bounded)
    log,                \* history variable: the idle callbacks run so far, in order
    appended            \* history variable: the records appended to self.history, in order

vars == <<numeric_stats, history, last_output, last_update_time, store, refresh_label,
          summary_label, unit_toggle, timer_armed, running, fetched, idle, now,
          nticks, ntoggles, log, appended>>

snapshot == <<numeric_stats, history, last_output, last_update_time, store>>

\* The idle callback queued by load_arcstats or on_unit_toggled.
UpdateCall(by, output, update_time) ==
    [fn |-> "update_store", by |-> by, output |-> output, update_time |-> update_time]

ErrorCall(e) ==
    [fn |-> "update_ui_on_error", by |-> "load_arcstats",
     error_message |-> <<"Error fetching stats: ", e>>]

\* The callback cb as the main loop ran it; raised: it ended with an
\* exception (update_store ended before self.history.append).
Ran(cb, raised) == [f \in DOMAIN cb \cup {"raised"} |-> IF f = "raised" THEN raised ELSE cb[f]]

\* The exceptions load_arcstats catches.
Failures == {"CalledProcessError", "FileNotFoundError"}

\* The state once __init__ has returned and n polls, printing CycleOut(1..n),
\* have each been fetched and applied before the next tick fired: the timer
\* is installed and the thread of the last refresh_stats call is running.
StateAfterPolls(n) ==
    /\ n <= HISTORY_CAPACITY
    /\ numeric_stats = (IF n = 0 THEN EmptyDict ELSE Parsed(CycleOut(n), TRUE).numeric_stats)
    /\ history = [i \in 1..n |-> PointOf(Parsed(CycleOut(i), TRUE).numeric_stats)]
    /\ last_output = (IF n = 0 THEN <<>> ELSE CycleOut(n))
    /\ last_update_time = (IF n = 0 THEN NoneTime ELSE n)
    /\ store = (IF n = 0 THEN <<>> ELSE Parsed(CycleOut(n), TRUE).store)
    /\ refresh_label = <<"Refreshing...">>
    /\ summary_label = (IF n = 0 THEN [kind |-> "placeholder"]
                        ELSE SummaryOf(Parsed(CycleOut(n), TRUE).numeric_stats, TRUE))
    /\ unit_toggle = TRUE
    /\ timer_armed = TRUE
    /\ running = 1
    /\ fetched = {}
    /\ idle = <<>>
    /\ now = n + 1
    /\ nticks = 0
    /\ ntoggles = 0
    /\ log = [i \in 1..n |-> Ran(UpdateCall("load_arcstats", CycleOut(i), i), FALSE)]
    /\ appended = [i \in 1..n |-> PointOf(Parsed(CycleOut(i), TRUE).numeric_stats)]

Init == StateAfterPolls(0)

\* ---------------------------------------------------------------- actions

\* refresh_stats, called by the timer: sets the label, starts a worker
\* thread and returns True, which keeps the timer installed.
refresh_stats(maxTicks) ==
    /\ timer_armed
    /\ nticks < maxTicks
    /\ nticks' = nticks + 1
    /\ refresh_label' = <<"Refreshing...">>
    /\ running' = running + 1
    /\ timer_armed' = TRUE
    /\ UNCHANGED <<snapshot, summary_label, unit_toggle, fetched, idle, now, ntoggles, log, appended>>

\* load_arcstats, first part: check_output returns one of outs and the
\* thread reads the clock.
load_arcstats_fetch(outs) ==
    /\ running > 0
    /\ \E output \in outs :
          fetched' = fetched \cup {[output |-> output, update_time |-> now]}
    /\ running' = running - 1
    /\ now' = now + 1
    /\ UNCHANGED <<snapshot, refresh_label, summary_label, unit_toggle, timer_armed,
                   idle, nticks, ntoggles, log, appended>>

\* load_arcstats, second part: GLib.idle_add(self.update_store, output, update_time).
load_arcstats_post ==
    /\ \E f \in fetched :
          /\ fetched' = fetched \ {f}
          /\ idle' = Append(idle, UpdateCall("load_arcstats", f.output, f.update_time))
    /\ UNCHANGED <<snapshot, refresh_label, summary_label, unit_toggle, timer_armed,
                   running, now, nticks, ntoggles, log, appended>>

\* load_arcstats when check_output raises: the except branch queues
\* update_ui_on_error.
load_arcstats_fail ==
    /\ running > 0
    /\ running' = running - 1
    /\ \E e \in Failures : idle' = Append(idle, ErrorCall(e))
    /\ UNCHANGED <<snapshot, refresh_label, summary_label, unit_toggle, timer_armed,
                   fetched, now, nticks, ntoggles, log, appended>>

\* load_arcstats when check_output raises an exception the except clause
\* does not name (PermissionError, UnicodeDecodeError, ...): the thread ends
\* with the exception uncaught and queues nothing.
load_arcstats_raise ==
    /\ running > 0
    /\ running' = running - 1
    /\ UNCHANGED <<snapshot, refresh_label, summary_label, unit_toggle, timer_armed,
                   fetched, idle, now, nticks, ntoggles, log, appended>>

\* A click on the check button: GTK flips it and runs on_unit_toggled,
\* which queues update_store with the arguments as they are now.
on_unit_toggled(maxToggles) ==
    /\ ntoggles < maxToggles
    /\ ntoggles' = ntoggles + 1
    /\ unit_toggle' = ~unit_toggle
    /\ idle' = Append(idle, UpdateCall("on_unit_toggled", last_output, last_update_time))
    /\ UNCHANGED <<snapshot, refresh_label, summary_label, timer_armed, running,
                   fetched, now, nticks, log, appended>>

\* update_summary: when the ratio or size_disp raises, nothing has been set;
\* update_chart, the last statement, raises after the label is set and the
\* record appended.
update_summary(ns) ==
    \E summary_markup \in {SummaryOf(ns, unit_toggle)} :
        IF IsRaise(summary_markup)
        THEN UNCHANGED <<summary_label, history, appended>>
        ELSE /\ summary_label' = summary_markup
             /\ \E point \in {PointOf(ns)} :
                   /\ history' = RecordHistory(history, point)
                   /\ appended' = Append(appended, point)

\* self.update_summary() returned in this step: it appended its record and
\* update_chart, drawing the new history, did not raise.
SummaryReturned == appended' # appended /\ ~IsRaise(update_chart(history'))

\* update_store: last_output and last_update_time are set and both
\* containers cleared before the loop; an OverflowError raised by
\* human_readable in the loop, or by update_summary after it, ends the call
\* with what was assigned until then; the refresh label is set when
\* update_summary returned.
update_store(output, update_time) ==
    \E r \in {RunLoop(output, unit_toggle, Cleared(store, numeric_stats))} :
        /\ last_output' = output
        /\ last_update_time' = update_time
        /\ store' = r.store
        /\ numeric_stats' = r.numeric_stats
        /\ IF r.raised
           THEN UNCHANGED <<summary_label, history, appended, refresh_label>>
           ELSE /\ update_summary(r.numeric_stats)
                /\ refresh_label' =
                      (IF SummaryReturned /\ update_time # NoneTime
                       THEN <<"Updated: ", update_time>> ELSE refresh_label)

\* Mutant of update_ui_on_error: the table is cleared on failure.
update_ui_on_error_clears(error_message) ==
    /\ refresh_label' = <<"Update failed">>
    /\ summary_label' = [kind |-> "error", text |-> error_message]
    /\ store' = <<>>
    /\ UNCHANGED <<numeric_stats, history, last_output, last_update_time, appended>>

update_ui_on_error(error_message) ==
    /\ refresh_label' = <<"Update failed">>
    /\ summary_label' = [kind |-> "error", text |-> error_message]
    /\ UNCHANGED <<snapshot, appended>>

\* The main loop runs the oldest idle callback; it returns a false value and
\* is removed.
Dispatch ==
    /\ idle # <<>>
    /\ idle' = Tail(idle)
    /\ IF Head(idle).fn = "update_store"
       THEN update_store(Head(idle).output, Head(idle).update_time)
       ELSE update_ui_on_error(Head(idle).error_message)
    /\ log' = Append(log, Ran(Head(idle), Head(idle).fn = "update_store" /\ ~SummaryReturned))
    /\ UNCHANGED <<unit_toggle, timer_armed, running, fetched, now, nticks, ntoggles>>

\* --------------------------------------------------------- specifications

MaxTicks == 1
MaxToggles == 1

Next ==
    \/ refresh_stats(MaxTicks)
    \/ load_arcstats_fetch(Outputs)
    \/ load_arcstats_post
    \/ load_arcstats_fail
    \/ load_arcstats_raise
    \/ on_unit_toggled(MaxToggles)
    \/ Dispatch

Spec == Init /\ [][Next]_vars

\* The system with the main loop and the worker threads scheduled fairly:
\* a thread that holds its result reaches idle_add, and the main loop, idle
\* between two ticks, runs a queued idle callback.
LiveMaxTicks == 2
LiveMaxToggles == 1

NextLive ==
    \/ refresh_stats(LiveMaxTicks)
    \/ load_arcstats_fetch(Outputs)
    \/ load_arcstats_post
    \/ load_arcstats_fail
    \/ load_arcstats_raise
    \/ on_unit_toggled(LiveMaxToggles)
    \/ Dispatch

LiveSpec == Init /\ [][NextLive]_vars /\ WF_vars(Dispatch) /\ WF_vars(load_arcstats_post)

\* The parser and the aggregator on many inputs: one poll has been applied,
\* the running retrieval prints any text of ParseInputs, and the check
\* button is clicked at most ParseMaxToggles times.
ParseMaxToggles == 1

InitParse == StateAfterPolls(1)

NextParse ==
    \/ load_arcstats_fetch(ParseInputs)
    \/ load_arcstats_post
    \/ on_unit_toggled(ParseMaxToggles)
    \/ Dispatch

SpecParse == InitParse /\ [][NextParse]_vars

\* The system from a session HistWarm polls old, its history nearly full.
HistWarm == 59
HistMaxTicks == 1
HistMaxToggles == 1

InitHist == StateAfterPolls(HistWarm)

NextHist ==
    \/ refresh_stats(HistMaxTicks)
    \/ load_arcstats_fetch(Outputs)
    \/ load_arcstats_post
    \/ load_arcstats_fail
    \/ load_arcstats_raise
    \/ on_unit_toggled(HistMaxToggles)
    \/ Dispatch

SpecHist == InitHist /\ [][NextHist]_vars

\* ------------------------------------------------------------ properties

Last(s) == s[Len(s)]

IsUpdate(cb) == cb.fn = "update_store"

IsError(cb) == cb.fn = "update_ui_on_error"

IsPoll(cb) == cb.fn = "update_store" /\ cb.by = "load_arcstats"

IsReformat(cb) == cb.fn = "update_store" /\ cb.by = "on_unit_toggled"

\* The callback of a retrieval ran to its end.
IsApplied(cb) == IsPoll(cb) /\ ~cb.raised

\* The update_store calls run so far, those made for a retrieval, and those
\* of them that ran to their end.
UpdatesRun == SelectSeq(log, IsUpdate)

PollsRun == SelectSeq(log, IsPoll)

PollsApplied == SelectSeq(log, IsApplied)

\* C1: the history never holds more than 60 records and always equals the
\* (at most) 60 most recently appended records, in append order.
HistoryIsLast60 ==
    /\ Len(history) <= HISTORY_CAPACITY
    /\ history = LastN(appended, HISTORY_CAPACITY)

\* C1 witness: the history was full and its oldest record has been evicted,
\* after a failed update and a re-format were handled too.
HistoryEvicted ==
    /\ Len(appended) >= HISTORY_CAPACITY + 1
    /\ Len(history) = HISTORY_CAPACITY
    /\ \E i \in DOMAIN log : IsError(log[i])
    /\ \E i \in DOMAIN log : IsReformat(log[i])

\* The main loop runs update_ui_on_error in this step.
ErrorHandled == idle # <<>> /\ IsError(Head(idle)) /\ idle' = Tail(idle)

\* C2: handling a failed retrieval leaves the raw text, the update time, the
\* table, the numeric mapping and the history as they were, and the timer
\* installed.
ErrorKeepsSnapshot ==
    [][ErrorHandled => /\ UNCHANGED <<last_output, last_update_time, store, numeric_stats, history>>
                       /\ refresh_label' = <<"Update failed">>
                       /\ summary_label'.kind = "error"
                       /\ timer_armed']_vars

\* C2 witness: a failure has just been handled over a non-empty snapshot.
ErrorAfterUpdate ==
    /\ log # <<>> /\ IsError(Last(log))
    /\ refresh_label = <<"Update failed">>
    /\ summary_label.kind = "error"
    /\ store # <<>> /\ history # <<>> /\ last_update_time # NoneTime

\* Retrievals started and not yet handed to the main loop.
InFlight == running + Cardinality(fetched)

\* C3: at most one retrieval is in flight at any time.
AtMostOneInFlight == InFlight <= 1

\* C4: once a re-format queued by the toggle has run, the raw text and the
\* update time are those of the retrieval applied last.
ReformatKeepsLatest ==
    (log # <<>> /\ IsReformat(Last(log)) /\ PollsRun # <<>>) =>
        /\ last_output = Last(PollsRun).output
        /\ last_update_time = Last(PollsRun).update_time

\* C5: the table, the numeric mapping, the summary figures and the newest
\* history record all derive from the one raw text stored.
SnapshotConsistent ==
    LET ns == Parsed(last_output, FALSE).numeric_stats
    IN  /\ \E h \in BOOLEAN : store = Parsed(last_output, h).store
        /\ Len(store) = Len(SelectSeq(SplitLines(last_output), IsSignificant))
        /\ numeric_stats = ns
        /\ UpdatesRun # <<>> =>
              /\ history # <<>>
              /\ Last(history) = PointOf(ns)
              /\ last_output = Last(UpdatesRun).output
        /\ summary_label.kind = "stats" =>
              \E h \in BOOLEAN : summary_label = SummaryOf(ns, h)

\* The ratio of the history record p is as claimed (the equation is
\* evaluated for counters below 10^HugeDigits).
RatioAsClaimed(p) ==
    /\ (p.hits.hi = 0 /\ p.misses.hi = 0 /\ p.hits.lo + p.misses.lo > 0) =>
          p.ratio.num * (p.hits.lo + p.misses.lo) = 100 * p.hits.lo * p.ratio.den
    /\ ~IsPos(Add(p.hits, p.misses)) => p.ratio.num = 0
    /\ p.ratio.den > 0
    /\ 0 <= p.ratio.num /\ p.ratio.num <= 100 * p.ratio.den

\* C6: the ratio is hits/total*100 when total > 0 and 0 otherwise, and lies
\* in [0, 100], in the summary and in every history record.
RatioInRange ==
    /\ \A i \in DOMAIN history : RatioAsClaimed(history[i])
    /\ summary_label.kind = "stats" =>
          0 <= summary_label.ratio.num /\ summary_label.ratio.num <= 100 * summary_label.ratio.den

\* C7: the summary is flagged low exactly when the hit ratio it shows is
\* strictly between 0 and 90; 90/10 is not flagged, 89/11 is, 0/0 is not.
\* The record appended last holds the hits, misses and ratio of the
\* update_summary call that set the summary.
LowFlagExact ==
    summary_label.kind = "stats" =>
        LET p == Last(appended)
            hits == p.hits.lo
            misses == p.misses.lo
            total == hits + misses
        IN  /\ summary_label.ratio = p.ratio
            /\ summary_label.hits = Grouped(p.hits) /\ summary_label.misses = Grouped(p.misses)
            /\ summary_label.low <=>
                  (0 < p.ratio.num /\ p.ratio.num < LOW_RATIO_THRESHOLD * p.ratio.den)
            /\ (p.hits.hi = 0 /\ p.misses.hi = 0) =>
                  /\ summary_label.low <=> (total > 0 /\ 100 * hits > 0 /\ 100 * hits < 90 * total)
                  /\ (hits = 90 /\ misses = 10) => ~summary_label.low
                  /\ (hits = 89 /\ misses = 11) => summary_label.low
                  /\ (hits = 0 /\ misses = 0) => ~summary_label.low

\* C7 witness: a retrieval with 89 hits and 11 misses was applied and is flagged.
LowFlagged ==
    /\ summary_label.kind = "stats" /\ summary_label.low
    /\ Last(appended).hits = Small(89) /\ Last(appended).misses = Small(11)
    /\ log # <<>> /\ IsApplied(Last(log)) /\ Len(PollsRun) >= 2

\* The retrieval that read the clock at t has been applied: its callback
\* ran to its end.
Applied(t) == \E i \in DOMAIN log : IsApplied(log[i]) /\ log[i].update_time = t

\* C8: the timer stays installed and a tick can fire whatever the earlier
\* attempts did, every tick starts a retrieval, and every retrieval that
\* succeeds is eventually applied to the table, the summary and the history:
\* its callback, once run, has run to its end (no other callback holds its
\* result), and it does run.
RetryAndApply ==
    /\ [](timer_armed /\ (nticks < LiveMaxTicks => ENABLED refresh_stats(LiveMaxTicks)))
    /\ [][nticks' # nticks => running' = running + 1]_vars
    /\ [](\A i \in DOMAIN log : IsPoll(log[i]) => IsApplied(log[i]))
    /\ \A t \in 1..(LiveMaxTicks + 1) :
          (\E f \in fetched : f.update_time = t) ~>
              (Applied(t) /\ Len(history) >= 1 /\ summary_label.kind # "placeholder")

\* C9: the history holds one record per retrieval applied, up to 60; a
\* re-format leaves it unchanged.
HistoryCountsPolls == Len(history) = Min(HISTORY_CAPACITY, Len(PollsApplied))

\* The lines of text that contain ": ".
SigLines(text) ==
    LET HasSep(l) == \E i \in 1..(Len(l) - 1) : l[i] = COLON /\ l[i + 1] = SP
    IN  SelectSeq(SplitLines(text), HasSep)

\* C10: the table rows are the lines of the applied text that contain ": ",
\* in order; the numeric keys are the keys of the rows whose value is an
\* integer; no other key is left in either.
TableFromLastOutput ==
    LET sig == SigLines(last_output)
    IN  /\ Len(store) = Len(sig)
        /\ \A i \in DOMAIN store : store[i][1] = SplitKeyVal(sig[i]).key
        /\ DOMAIN numeric_stats = {store[i][1] : i \in {j \in DOMAIN store : store[j][2].fmt # "text"}}
        /\ DOMAIN numeric_stats \subseteq {store[i][1] : i \in DOMAIN store}
        /\ \A i \in DOMAIN store : store[i][2].fmt = "text" <=> ~IsInt(SplitKeyVal(sig[i]).val_str)

=============================================================================
